---- MODULE Spec2Model ----
(***************************************************************************)
(* Model of arbitrage_logic.py: the two pricers                            *)
(* calculate_box_spread_arbitrage and calculate_calendar_spread_arbitrage. *)
(*                                                                         *)
(* A Python value (a price field, a rate, an intermediate or the value a   *)
(* call ends with) is a record [t, n, d]:                                   *)
(*   t = "num"        the exact rational n/d, d > 0, in lowest terms       *)
(*   t = "none"       None                                                 *)
(*   t = "str"        a string such as '*'                                 *)
(*   t = "neginf"     -math.inf                                            *)
(*   t = "IndexError", "TypeError"   the call raised that exception        *)
(* A leg is a dict: a function whose domain is a subset of                 *)
(* {"ask_price", "bid_price"}.                                             *)
(***************************************************************************)
EXTENDS Integers, Sequences, FiniteSets, TLC

VARIABLES pc, call, k1, k2, leg_data, option_type, strike,
          shorter_leg_data, longer_leg_data, btc_usd_price,
          transaction_fee_rate, ret

vars == <<pc, call, k1, k2, leg_data, option_type, strike,
          shorter_leg_data, longer_leg_data, btc_usd_price,
          transaction_fee_rate, ret>>

(***************************************************************************)
(* Bounds of the input sets.                                               *)
(***************************************************************************)
MaxPrice == 1
MaxStrike == 1
MaxSpot == 1
MaxFee == 1
MaxFactor == 3

(***************************************************************************)
(* Exact rational arithmetic on "num" values.                              *)
(***************************************************************************)
RECURSIVE GCD(_, _)
GCD(a, b) == IF b = 0 THEN a ELSE GCD(b, a % b)

Abs(x) == IF x < 0 THEN -x ELSE x

LCM(a, b) == (a \div GCD(a, b)) * b

Rat(n, d) ==
    LET g == GCD(Abs(n), d)
    IN  [t |-> "num", n |-> n \div g, d |-> d \div g]

Int2Num(i) == Rat(i, 1)

RAdd(a, b) ==
    LET l == LCM(a.d, b.d)
    IN  Rat(a.n * (l \div a.d) + b.n * (l \div b.d), l)

RSub(a, b) ==
    LET l == LCM(a.d, b.d)
    IN  Rat(a.n * (l \div a.d) - b.n * (l \div b.d), l)

RMul(a, b) == Rat(a.n * b.n, a.d * b.d)

RLess(a, b) ==
    LET l == LCM(a.d, b.d)
    IN  a.n * (l \div a.d) < b.n * (l \div b.d)

(***************************************************************************)
(* Python values that are not numbers.                                     *)
(***************************************************************************)
None == [t |-> "none", n |-> 0, d |-> 1]
Star == [t |-> "str", n |-> 0, d |-> 1]
NegInf == [t |-> "neginf", n |-> 0, d |-> 1]
IndexError == [t |-> "IndexError", n |-> 0, d |-> 1]
TypeError == [t |-> "TypeError", n |-> 0, d |-> 1]
Pending == [t |-> "pending", n |-> 0, d |-> 1]

IsNum(v) == v.t = "num"
IsFault(v) == v.t \in {"IndexError", "TypeError"}

(***************************************************************************)
(* dict.get(key): the value, or None when the key is missing.              *)
(***************************************************************************)
Get(leg, key) == IF key \in DOMAIN leg THEN leg[key] ELSE None

\* Variant of Item: a leg past the end of the list reads as a zero price.
ItemOrZero(legs, i, key) ==
    IF i + 1 > Len(legs) THEN [t |-> "num", n |-> 0, d |-> 1]
    ELSE legs[i + 1][key]

(***************************************************************************)
(* leg_data[i][key] with Python's 0-based index: IndexError past the end   *)
(* of the list.  It is evaluated only after the guard, so the key exists.  *)
(***************************************************************************)
Item(legs, i, key) ==
    IF i + 1 > Len(legs) THEN IndexError ELSE legs[i + 1][key]

\* Variant of ToUsd: the premium is left in BTC.
ToUsdUnconverted(price, rate) ==
    IF IsFault(price) THEN price
    ELSE IF IsNum(price) /\ IsNum(rate) THEN price
    ELSE TypeError

(***************************************************************************)
(* price * btc_usd_price.  An exception raised while evaluating the left   *)
(* operand propagates; a str times a float raises TypeError.               *)
(***************************************************************************)
ToUsd(price, rate) ==
    IF IsFault(price) THEN price
    ELSE IF IsNum(price) /\ IsNum(rate) THEN RMul(price, rate)
    ELSE TypeError

(***************************************************************************)
(* The statements of lines 34..43 run in order: the first one that raises  *)
(* ends the call with its exception.                                       *)
(***************************************************************************)
RECURSIVE FirstFault(_)
FirstFault(s) ==
    IF s = <<>> THEN None
    ELSE IF IsFault(Head(s)) THEN Head(s)
    ELSE FirstFault(Tail(s))

\* Variant of BoxIncomplete: only the prices the arithmetic reads are
\* checked (ask of legs 0 and 3, bid of legs 1 and 2).
BoxIncompleteReadFieldsOnly(legs) ==
    \E i \in 1..Len(legs) :
        Get(legs[i], IF i \in {1, 4} THEN "ask_price" ELSE "bid_price") = None

(***************************************************************************)
(* Box spread, lines 27..30: some leg lacks ask_price or bid_price.        *)
(***************************************************************************)
BoxIncomplete(legs) ==
    \E i \in 1..Len(legs) :
        Get(legs[i], "ask_price") = None \/ Get(legs[i], "bid_price") = None

\* Variant of net_premium_usd: revenues minus costs.
net_premium_usd_as_credit(leg0_cost_usd, leg1_revenue_usd, leg2_revenue_usd, leg3_cost_usd) ==
    RSub(RAdd(leg1_revenue_usd, leg2_revenue_usd),
         RAdd(leg0_cost_usd, leg3_cost_usd))

net_premium_usd(leg0_cost_usd, leg1_revenue_usd, leg2_revenue_usd, leg3_cost_usd) ==
    RSub(RAdd(leg0_cost_usd, leg3_cost_usd),
         RAdd(leg1_revenue_usd, leg2_revenue_usd))

theoretical_value_usd(strike1, strike2) == Int2Num(strike2 - strike1)

box_total_premiums_for_fees(leg0_cost_usd, leg1_revenue_usd, leg2_revenue_usd, leg3_cost_usd) ==
    RAdd(RAdd(RAdd(leg0_cost_usd, leg1_revenue_usd), leg2_revenue_usd),
         leg3_cost_usd)

\* Variant of transaction_fees_usd: the rate of the docstring's example,
\* 0.0003, whatever rate is passed.
transaction_fees_usd_fixed_rate(total_premiums_for_fees, fee_rate) ==
    RMul(total_premiums_for_fees, Rat(3, 10000))

transaction_fees_usd(total_premiums_for_fees, fee_rate) ==
    RMul(total_premiums_for_fees, fee_rate)

calculate_box_spread_arbitrage(strike1, strike2, legs, rate, fee_rate) ==
    IF BoxIncomplete(legs) THEN NegInf
    ELSE
      LET leg0_cost_usd == ToUsd(Item(legs, 0, "ask_price"), rate)
          leg1_revenue_usd == ToUsd(Item(legs, 1, "bid_price"), rate)
          leg2_revenue_usd == ToUsd(Item(legs, 2, "bid_price"), rate)
          leg3_cost_usd == ToUsd(Item(legs, 3, "ask_price"), rate)
          fault == FirstFault(<<leg0_cost_usd, leg1_revenue_usd,
                                leg2_revenue_usd, leg3_cost_usd>>)
      IN  IF fault # None THEN fault
          ELSE RSub(RSub(theoretical_value_usd(strike1, strike2),
                         net_premium_usd(leg0_cost_usd, leg1_revenue_usd,
                                         leg2_revenue_usd, leg3_cost_usd)),
                    transaction_fees_usd(
                        box_total_premiums_for_fees(
                            leg0_cost_usd, leg1_revenue_usd,
                            leg2_revenue_usd, leg3_cost_usd),
                        fee_rate))

\* Variant of CalendarIncomplete: only the prices the arithmetic reads are
\* checked (bid of the shorter leg, ask of the longer leg).
CalendarIncompleteReadFieldsOnly(shorter, longer) ==
    \/ Get(shorter, "bid_price") = None
    \/ Get(longer, "ask_price") = None

(***************************************************************************)
(* Calendar spread, lines 84..87: either leg lacks bid_price or ask_price. *)
(***************************************************************************)
CalendarIncomplete(shorter, longer) ==
    \/ Get(shorter, "bid_price") = None
    \/ Get(shorter, "ask_price") = None
    \/ Get(longer, "bid_price") = None
    \/ Get(longer, "ask_price") = None

\* Variant of premium_diff_usd: cost minus revenue.
premium_diff_usd_as_debit(shorter_leg_revenue_usd, longer_leg_cost_usd) ==
    RSub(longer_leg_cost_usd, shorter_leg_revenue_usd)

premium_diff_usd(shorter_leg_revenue_usd, longer_leg_cost_usd) ==
    RSub(shorter_leg_revenue_usd, longer_leg_cost_usd)

calendar_total_premiums_for_fees(shorter_leg_revenue_usd, longer_leg_cost_usd) ==
    RAdd(shorter_leg_revenue_usd, longer_leg_cost_usd)

\* Variant of calculate_calendar_spread_arbitrage: for a PUT the strike,
\* as the exercise value, is added to the net credit.
calculate_calendar_spread_arbitrage_put_strike(otype, strk, shorter, longer, rate, fee_rate) ==
    IF CalendarIncomplete(shorter, longer) THEN NegInf
    ELSE
      LET shorter_leg_revenue_usd == ToUsd(shorter["bid_price"], rate)
          longer_leg_cost_usd == ToUsd(longer["ask_price"], rate)
          fault == FirstFault(<<shorter_leg_revenue_usd, longer_leg_cost_usd>>)
          credit == RSub(premium_diff_usd(shorter_leg_revenue_usd,
                                          longer_leg_cost_usd),
                         transaction_fees_usd(
                             calendar_total_premiums_for_fees(
                                 shorter_leg_revenue_usd, longer_leg_cost_usd),
                             fee_rate))
      IN  IF fault # None THEN fault
          ELSE IF otype = "PUT" THEN RAdd(credit, Int2Num(strk))
          ELSE credit

calculate_calendar_spread_arbitrage(otype, strk, shorter, longer, rate, fee_rate) ==
    IF CalendarIncomplete(shorter, longer) THEN NegInf
    ELSE
      LET shorter_leg_revenue_usd == ToUsd(shorter["bid_price"], rate)
          longer_leg_cost_usd == ToUsd(longer["ask_price"], rate)
          fault == FirstFault(<<shorter_leg_revenue_usd, longer_leg_cost_usd>>)
      IN  IF fault # None THEN fault
          ELSE RSub(premium_diff_usd(shorter_leg_revenue_usd,
                                     longer_leg_cost_usd),
                    transaction_fees_usd(
                        calendar_total_premiums_for_fees(
                            shorter_leg_revenue_usd, longer_leg_cost_usd),
                        fee_rate))

(***************************************************************************)
(* Input sets.                                                             *)
(***************************************************************************)
Dec4(n) == Rat(n, 10000)

Prices == {Dec4(p) : p \in -1..MaxPrice}
Strikes == -1..MaxStrike
SpotRates == {Int2Num(s) : s \in -1..MaxSpot}
FeeRates == {Dec4(f) : f \in 0..MaxFee}
OptionTypes == {"CALL", "PUT", "STRADDLE"}

Quote(ask, bid) == [ask_price |-> ask, bid_price |-> bid]

\* Every shape a leg dict can have: each key missing, None, a string or
\* a number.
FieldShapes == {None, Star, Dec4(MaxPrice)}
QuoteShapes ==
    {Quote(a, b) : a \in FieldShapes, b \in FieldShapes}
    \cup {[ask_price |-> a] : a \in FieldShapes}
    \cup {[bid_price |-> b] : b \in FieldShapes}
    \cup {<<>>}

\* A quoted market: the ask one tick above the bid, as in the test data.
Market(bid) == Quote(RAdd(bid, Dec4(1)), bid)
Markets == {Market(b) : b \in Prices}

\* Complete numeric quotes, ask and bid independent.
NumQuotes == {Quote(a, b) : a \in Prices, b \in Prices}

NoLeg == [key \in {} |-> None]

(***************************************************************************)
(* The three calls of test_box_arbitrage_calculator.py.                    *)
(***************************************************************************)
test_positive_profit_legs ==
    <<Quote(Dec4(50), Dec4(49)), Quote(Dec4(21), Dec4(20)),
      Quote(Dec4(11), Dec4(10)), Quote(Dec4(41), Dec4(40))>>

test_negative_profit_legs ==
    <<Quote(Dec4(55), Dec4(54)), Quote(Dec4(15), Dec4(14)),
      Quote(Dec4(8), Dec4(7)), Quote(Dec4(48), Dec4(47))>>

test_missing_price_data_legs ==
    <<Quote(Dec4(50), Dec4(49)), Quote(Dec4(21), Dec4(20)),
      Quote(Dec4(11), Star), Quote(Dec4(41), Dec4(40))>>

TestLegs == {test_positive_profit_legs, test_negative_profit_legs,
             test_missing_price_data_legs}

RECURSIVE SeqsUpTo(_, _)
SeqsUpTo(S, n) ==
    IF n = 0 THEN {<<>>}
    ELSE LET shorter == SeqsUpTo(S, n - 1)
         IN  shorter \cup {Append(s, x) : s \in {q \in shorter : Len(q) = n - 1}, x \in S}

(***************************************************************************)
(* Initial states: one call, its arguments chosen, not yet run.            *)
(***************************************************************************)
BoxArgs(strike1, strike2, legs, rate, fee_rate) ==
    /\ call = "box"
    /\ k1 = strike1
    /\ k2 = strike2
    /\ leg_data = legs
    /\ btc_usd_price = rate
    /\ transaction_fee_rate = fee_rate
    /\ option_type = ""
    /\ strike = 0
    /\ shorter_leg_data = NoLeg
    /\ longer_leg_data = NoLeg

CalendarArgs(otype, strk, shorter, longer, rate, fee_rate) ==
    /\ call = "calendar"
    /\ option_type = otype
    /\ strike = strk
    /\ shorter_leg_data = shorter
    /\ longer_leg_data = longer
    /\ btc_usd_price = rate
    /\ transaction_fee_rate = fee_rate
    /\ k1 = 0
    /\ k2 = 0
    /\ leg_data = <<>>

\* Box spread, legs of every shape and any length up to four.
InitBoxShapes ==
    \E legs \in SeqsUpTo(QuoteShapes, 4) :
        BoxArgs(0, MaxStrike, legs, Int2Num(MaxSpot), Dec4(MaxFee))

\* Box spread, four quoted markets, all numeric arguments varied.
InitBoxMarkets ==
    \E strike1 \in Strikes, strike2 \in Strikes, legs \in [1..4 -> Markets],
       rate \in SpotRates, fee_rate \in FeeRates :
        BoxArgs(strike1, strike2, legs, rate, fee_rate)

\* Box spread, the calls of the test suite.
InitBoxTests ==
    \E legs \in TestLegs :
        BoxArgs(60000, 61000, legs, Int2Num(70000), Dec4(3))

\* Calendar spread, legs of every shape.
InitCalendarShapes ==
    \E otype \in OptionTypes, strk \in Strikes,
       shorter \in QuoteShapes, longer \in QuoteShapes :
        CalendarArgs(otype, strk, shorter, longer, Int2Num(MaxSpot), Dec4(MaxFee))

\* Calendar spread, complete numeric legs, all numeric arguments varied.
InitCalendarQuotes ==
    \E otype \in {"CALL", "PUT"}, strk \in {MaxStrike},
       shorter \in NumQuotes, longer \in NumQuotes,
       rate \in SpotRates, fee_rate \in FeeRates :
        CalendarArgs(otype, strk, shorter, longer, rate, fee_rate)

Init ==
    /\ pc = "call"
    /\ ret = Pending
    /\ \/ InitBoxShapes
       \/ InitBoxMarkets
       \/ InitBoxTests
       \/ InitCalendarShapes
       \/ InitCalendarQuotes

(***************************************************************************)
(* The two operations.                                                     *)
(***************************************************************************)
BoxCall ==
    /\ pc = "call"
    /\ call = "box"
    /\ ret' = calculate_box_spread_arbitrage(k1, k2, leg_data, btc_usd_price,
                                              transaction_fee_rate)
    /\ pc' = "done"
    /\ UNCHANGED <<call, k1, k2, leg_data, option_type, strike,
                   shorter_leg_data, longer_leg_data, btc_usd_price,
                   transaction_fee_rate>>

CalendarCall ==
    /\ pc = "call"
    /\ call = "calendar"
    /\ ret' = calculate_calendar_spread_arbitrage(
                  option_type, strike, shorter_leg_data, longer_leg_data,
                  btc_usd_price, transaction_fee_rate)
    /\ pc' = "done"
    /\ UNCHANGED <<call, k1, k2, leg_data, option_type, strike,
                   shorter_leg_data, longer_leg_data, btc_usd_price,
                   transaction_fee_rate>>

Next == BoxCall \/ CalendarCall

Spec == Init /\ [][Next]_vars

TypeOK ==
    /\ pc \in {"call", "done"}
    /\ call \in {"box", "calendar"}
    /\ ret.t \in {"pending", "num", "neginf", "IndexError", "TypeError"}
    /\ (pc = "call") <=> (ret = Pending)

(***************************************************************************)
(* Vocabulary of the properties.                                           *)
(***************************************************************************)
Keys == {"ask_price", "bid_price"}

Done(fn) == pc = "done" /\ call = fn

Absent(leg, key) == key \notin DOMAIN leg \/ leg[key].t = "none"

Numeric(leg) == \A key \in Keys : key \in DOMAIN leg /\ leg[key].t = "num"

BoxNumeric == Len(leg_data) = 4 /\ \A i \in 1..4 : Numeric(leg_data[i])

CalendarNumeric == Numeric(shorter_leg_data) /\ Numeric(longer_leg_data)

Zero == Int2Num(0)

Factors == {Rat(c, 2) : c \in 1..MaxFactor}

\* (k2 - k1) - ((ask0 + ask3) - (bid1 + bid2)) * spot
\*           - (ask0 + bid1 + bid2 + ask3) * spot * fee
BoxFormula(strike1, strike2, ask0, bid1, bid2, ask3, rate, fee_rate) ==
    RSub(RSub(Int2Num(strike2 - strike1),
              RMul(RSub(RAdd(ask0, ask3), RAdd(bid1, bid2)), rate)),
         RMul(RMul(RAdd(RAdd(RAdd(ask0, bid1), bid2), ask3), rate), fee_rate))

\* (bid * spot - ask * spot) - (bid * spot + ask * spot) * fee
CalendarFormula(bid, ask, rate, fee_rate) ==
    RSub(RSub(RMul(bid, rate), RMul(ask, rate)),
         RMul(RAdd(RMul(bid, rate), RMul(ask, rate)), fee_rate))

BoxFeeBase ==
    RMul(RAdd(RAdd(RAdd(leg_data[1].ask_price, leg_data[2].bid_price),
                   leg_data[3].bid_price), leg_data[4].ask_price),
         btc_usd_price)

CalendarFeeBase ==
    RMul(RAdd(shorter_leg_data.bid_price, longer_leg_data.ask_price),
         btc_usd_price)

(***************************************************************************)
(* C1.  A box spread call with four legs in which some leg lacks ask_price *)
(* or bid_price (key missing or None) returns exactly negative infinity,   *)
(* whatever the other fields, the strikes and the rates are.               *)
(***************************************************************************)
C1_BoxCompletenessGuard ==
    (/\ Done("box")
     /\ Len(leg_data) = 4
     /\ \E i \in 1..4, key \in Keys : Absent(leg_data[i], key))
    => ret = NegInf

\* The only absent field is one the arithmetic never reads (bid of leg 0).
C1_Witness ==
    /\ Done("box")
    /\ Len(leg_data) = 4
    /\ DOMAIN leg_data[1] = {"ask_price"}
    /\ leg_data[1].ask_price.t = "num"
    /\ \A i \in 2..4 : Numeric(leg_data[i])
    /\ ret = NegInf

(***************************************************************************)
(* C2.  A calendar spread call in which the shorter or the longer leg      *)
(* lacks bid_price or ask_price returns exactly negative infinity,         *)
(* whatever the other leg, option type, strike and rates are.              *)
(***************************************************************************)
C2_CalendarCompletenessGuard ==
    (/\ Done("calendar")
     /\ \E key \in Keys :
           Absent(shorter_leg_data, key) \/ Absent(longer_leg_data, key))
    => ret = NegInf

\* The only absent field is one the arithmetic never reads (bid of the
\* longer leg).
C2_Witness ==
    /\ Done("calendar")
    /\ Numeric(shorter_leg_data)
    /\ DOMAIN longer_leg_data = Keys
    /\ longer_leg_data.bid_price = None
    /\ longer_leg_data.ask_price.t = "num"
    /\ ret = NegInf

(***************************************************************************)
(* C3.  A box spread call with four complete numeric legs returns a        *)
(* number, never the sentinel, equal to                                    *)
(* (k2 - k1) - ((ask0 + ask3) - (bid1 + bid2)) * spot                      *)
(*           - (ask0 + bid1 + bid2 + ask3) * spot * fee;                   *)
(* the positive-profit call of the test suite returns 572.7459.            *)
(***************************************************************************)
C3_BoxProfitFormula ==
    /\ (Done("box") /\ BoxNumeric) =>
          /\ ret.t = "num"
          /\ ret = BoxFormula(k1, k2, leg_data[1].ask_price,
                              leg_data[2].bid_price, leg_data[3].bid_price,
                              leg_data[4].ask_price, btc_usd_price,
                              transaction_fee_rate)
    /\ (Done("box") /\ leg_data = test_positive_profit_legs) =>
          ret = Rat(5727459, 10000)

C3_Witness ==
    /\ Done("box")
    /\ leg_data = test_positive_profit_legs
    /\ k1 = 60000
    /\ k2 = 61000
    /\ btc_usd_price = Int2Num(70000)
    /\ transaction_fee_rate = Dec4(3)
    /\ ret = Rat(5727459, 10000)

(***************************************************************************)
(* C4.  A calendar spread call with two complete numeric legs returns a    *)
(* number, never the sentinel, equal to                                    *)
(* (bid(shorter) * spot - ask(longer) * spot)                              *)
(*   - (bid(shorter) * spot + ask(longer) * spot) * fee.                   *)
(***************************************************************************)
C4_CalendarProfitFormula ==
    (Done("calendar") /\ CalendarNumeric) =>
        /\ ret.t = "num"
        /\ ret = CalendarFormula(shorter_leg_data.bid_price,
                                 longer_leg_data.ask_price, btc_usd_price,
                                 transaction_fee_rate)

C4_Witness ==
    /\ Done("calendar")
    /\ CalendarNumeric
    /\ RLess(Zero, transaction_fee_rate)
    /\ RLess(Zero, CalendarFeeBase)
    /\ ret.t = "num"
    /\ RLess(Zero, ret)

(***************************************************************************)
(* C5.  The box spread call of test_box_spread_missing_price_data, whose   *)
(* leg 2 has bid_price = '*', returns negative infinity and does not       *)
(* fault.                                                                  *)
(***************************************************************************)
C5_PlaceholderPriceIsSentinel ==
    (Done("box") /\ leg_data = test_missing_price_data_legs) => ret = NegInf

(***************************************************************************)
(* C6.  The box spread call of test_box_spread_negative_profit returns a   *)
(* strictly negative profit.                                               *)
(***************************************************************************)
C6_LossScenarioIsNegative ==
    (Done("box") /\ leg_data = test_negative_profit_legs) =>
        (ret.t = "num" /\ RLess(ret, Zero))

(***************************************************************************)
(* C7.  The calendar spread result does not depend on option_type or       *)
(* strike: the call made with any other option type and strike and the     *)
(* same legs and rates returns the same value, sentinel or number.         *)
(***************************************************************************)
C7_CalendarIgnoresTypeAndStrike ==
    Done("calendar") =>
        \A otype \in OptionTypes, strk \in Strikes :
            calculate_calendar_spread_arbitrage(
                otype, strk, shorter_leg_data, longer_leg_data,
                btc_usd_price, transaction_fee_rate) = ret

C7_Witness ==
    /\ Done("calendar")
    /\ option_type = "PUT"
    /\ strike # 0
    /\ CalendarNumeric
    /\ ret.t = "num"
    /\ ret # Zero

(***************************************************************************)
(* C8.  Fee monotonicity: with complete numeric legs and a positive fee    *)
(* base, the same call made with any larger fee rate returns a strictly    *)
(* smaller profit, for the box spread and for the calendar spread.         *)
(***************************************************************************)
C8_FeeMonotonicity ==
    /\ (Done("box") /\ BoxNumeric /\ RLess(Zero, BoxFeeBase)) =>
          \A f2 \in FeeRates :
              RLess(transaction_fee_rate, f2) =>
                  RLess(calculate_box_spread_arbitrage(
                            k1, k2, leg_data, btc_usd_price, f2), ret)
    /\ (Done("calendar") /\ CalendarNumeric /\ RLess(Zero, CalendarFeeBase)) =>
          \A f2 \in FeeRates :
              RLess(transaction_fee_rate, f2) =>
                  RLess(calculate_calendar_spread_arbitrage(
                            option_type, strike, shorter_leg_data,
                            longer_leg_data, btc_usd_price, f2), ret)

C8_Witness ==
    /\ Done("box")
    /\ BoxNumeric
    /\ RLess(Zero, BoxFeeBase)
    /\ \E f2 \in FeeRates :
          /\ RLess(transaction_fee_rate, f2)
          /\ RLess(calculate_box_spread_arbitrage(
                       k1, k2, leg_data, btc_usd_price, f2), ret)

(***************************************************************************)
(* C9.  Spot-rate scaling: with complete numeric legs, the call made with  *)
(* the spot rate multiplied by a positive factor c has net premium, fee    *)
(* base and fees multiplied by c; the box profit is                        *)
(* (k2 - k1) + c * (profit - (k2 - k1)) and the calendar profit is         *)
(* c * profit.                                                             *)
(***************************************************************************)
BoxLegsUsd(rate) ==
    <<ToUsd(leg_data[1].ask_price, rate), ToUsd(leg_data[2].bid_price, rate),
      ToUsd(leg_data[3].bid_price, rate), ToUsd(leg_data[4].ask_price, rate)>>

BoxNetPremium(rate) ==
    LET u == BoxLegsUsd(rate) IN net_premium_usd(u[1], u[2], u[3], u[4])

BoxFeeBaseAt(rate) ==
    LET u == BoxLegsUsd(rate)
    IN  box_total_premiums_for_fees(u[1], u[2], u[3], u[4])

BoxFeesAt(rate) == transaction_fees_usd(BoxFeeBaseAt(rate), transaction_fee_rate)

C9_SpotRateScaling ==
    /\ (Done("box") /\ BoxNumeric) =>
          \A c \in Factors :
              LET scaled == RMul(c, btc_usd_price)
                  value == Int2Num(k2 - k1)
              IN  /\ BoxNetPremium(scaled) = RMul(c, BoxNetPremium(btc_usd_price))
                  /\ BoxFeeBaseAt(scaled) = RMul(c, BoxFeeBaseAt(btc_usd_price))
                  /\ BoxFeesAt(scaled) = RMul(c, BoxFeesAt(btc_usd_price))
                  /\ calculate_box_spread_arbitrage(
                         k1, k2, leg_data, scaled, transaction_fee_rate)
                     = RAdd(value, RMul(c, RSub(ret, value)))
    /\ (Done("calendar") /\ CalendarNumeric) =>
          \A c \in Factors :
              calculate_calendar_spread_arbitrage(
                  option_type, strike, shorter_leg_data, longer_leg_data,
                  RMul(c, btc_usd_price), transaction_fee_rate)
              = RMul(c, ret)

C9_Witness ==
    /\ Done("box")
    /\ BoxNumeric
    /\ k2 # k1
    /\ BoxNetPremium(btc_usd_price) # Zero
    /\ BoxFeesAt(btc_usd_price) # Zero
    /\ \E c \in Factors :
          /\ c # Int2Num(1)
          /\ calculate_box_spread_arbitrage(
                 k1, k2, leg_data, RMul(c, btc_usd_price), transaction_fee_rate)
             # ret

(***************************************************************************)
(* C10, as stated.  A box spread call with fewer than four legs always     *)
(* fails with an index error and never returns a value, whether or not     *)
(* the supplied legs are complete.                                         *)
(***************************************************************************)
C10_ShortListAlwaysFaults ==
    (Done("box") /\ Len(leg_data) < 4) => IsFault(ret)

(***************************************************************************)
(* C10, amended.  A box spread call with fewer than four legs returns      *)
(* negative infinity when some supplied leg lacks ask_price or bid_price;  *)
(* when every supplied leg is complete it returns no value: it fails with  *)
(* an index error, or with a type error when a price read before the       *)
(* missing leg is a string.                                                *)
(***************************************************************************)
ReadKey(i) == IF i \in {1, 4} THEN "ask_price" ELSE "bid_price"

C10_ShortListFaultsWhenComplete ==
    (Done("box") /\ Len(leg_data) < 4) =>
        IF \E i \in 1..Len(leg_data), key \in Keys : Absent(leg_data[i], key)
        THEN ret = NegInf
        ELSE IF \E i \in 1..Len(leg_data) : leg_data[i][ReadKey(i)].t = "str"
        THEN ret = TypeError
        ELSE ret = IndexError

C10_Witness ==
    /\ Done("box")
    /\ Len(leg_data) = 3
    /\ \A i \in 1..3 : Numeric(leg_data[i])
    /\ ret = IndexError

====
